---- MODULE Spec2Model ----
(***************************************************************************)
(* bytewax.serde: the Serde interface and its default implementation,      *)
(* PickleSerde, whose ser is `return pickle.dumps(obj)` and whose de is    *)
(* `return pickle.loads(s)`.                                               *)
(*                                                                         *)
(* The pickle library is modelled at the level of its byte stream:         *)
(* dumps is the protocol-4 pickler of CPython 3.11 (the default protocol   *)
(* of pickle.dumps) and loads is its unpickler, a stack machine run one    *)
(* opcode at a time.  Callers are threads sharing one PickleSerde.         *)
(***************************************************************************)
EXTENDS Integers, Sequences, FiniteSets, TLC

(***************************************************************************)
(* Python values.  Every value is a record of the same shape so that any   *)
(* two can be compared: t is the type, n the number of an int or bool, s   *)
(* the UTF-8 bytes of a str, items the elements of a list or tuple, or     *)
(* the key, value, key, value, ... of a dict in insertion order.           *)
(***************************************************************************)
V(t, n, s, items) == [t |-> t, n |-> n, s |-> s, items |-> items]

NoneV == V("none", 0, <<>>, <<>>)

TrueV == V("bool", 1, <<>>, <<>>)

FalseV == V("bool", 0, <<>>, <<>>)

IntV(n) == V("int", n, <<>>, <<>>)

StrV(s) == V("str", 0, s, <<>>)

ListV(items) == V("list", 0, <<>>, items)

TupleV(items) == V("tuple", 0, <<>>, items)

DictV(items) == V("dict", 0, <<>>, items)

\* An open file: a resource handle, which pickle cannot represent.
HandleV == V("handle", 0, <<>>, <<>>)

(***************************************************************************)
(* Outcomes of a call: it returns a value (de) or bytes (ser), or raises.  *)
(* "unmodelled" is the outcome of loads on a stream that leaves what is    *)
(* modelled here (it fetches a shared mutable object from the memo).       *)
(***************************************************************************)
Outcome(kind, exc, val, data) == [kind |-> kind, exc |-> exc, val |-> val, data |-> data]

ReturnVal(v) == Outcome("return", "", v, <<>>)

ReturnBytes(b) == Outcome("return", "", NoneV, b)

Raise(exc) == Outcome("raise", exc, NoneV, <<>>)

Unmodelled == Outcome("unmodelled", "", NoneV, <<>>)

\* The outcome of a call that has not ended.
NoOutcome == Outcome("none", "", NoneV, <<>>)

(***************************************************************************)
(* The opcodes of the pickle byte stream.                                  *)
(***************************************************************************)
PROTO == 128

FRAME == 149

MEMOIZE == 148

STOP == 46

NONE == 78

NEWTRUE == 136

NEWFALSE == 137

BININT1 == 75

SHORT_BINUNICODE == 140

EMPTY_LIST == 93

EMPTY_TUPLE == 41

EMPTY_DICT == 125

MARK == 40

APPEND == 97

APPENDS == 101

SETITEM == 115

SETITEMS == 117

TUPLE == 116

TUPLE1 == 133

TUPLE2 == 134

TUPLE3 == 135

BINGET == 104

BUILD == 98

\* pickle.DEFAULT_PROTOCOL and pickle.HIGHEST_PROTOCOL of CPython 3.11.
DEFAULT_PROTOCOL == 4

HIGHEST_PROTOCOL == 5

\* The pickler frames a payload only when it has at least this many bytes.
FRAME_SIZE_MIN == 4

\* An n below 65536 as the 8 little-endian bytes of a FRAME length.
LE8(n) == <<n % 256, (n \div 256) % 256, 0, 0, 0, 0, 0, 0>>

(***************************************************************************)
(* The pickler.  A Pickler holds the payload written so far (out), its     *)
(* memo (the objects memoized so far, by position) and the work still to   *)
(* do (todo): values to save and opcodes to write after them.              *)
(***************************************************************************)
Task(k, v, b) == [k |-> k, v |-> v, b |-> b]

SaveTask(v) == Task("save", v, <<>>)

EmitTask(b) == Task("emit", NoneV, b)

\* Write opcodes and memoize the object just built (a tuple, after its items).
EmitMemoTask(b) == Task("emitmemo", NoneV, b)

SaveTasks(items) == [i \in 1..Len(items) |-> SaveTask(items[i])]

\* The position of a str in the memo, or 0.  One-character strings are
\* singletons in CPython, so equal strings are one object to the memo; every
\* other memoized object is entered as None, which is never looked up.
MemoIndex(memo, v) ==
    IF \E i \in 1..Len(memo) : memo[i] = v
    THEN CHOOSE i \in 1..Len(memo) : memo[i] = v /\ \A j \in 1..(i - 1) : memo[j] # v
    ELSE 0

\* batch_list: nothing for an empty list, APPEND for one item, MARK ... APPENDS.
BatchList(items) ==
    IF Len(items) = 0 THEN <<>>
    ELSE IF Len(items) = 1 THEN <<SaveTask(items[1]), EmitTask(<<APPEND>>)>>
    ELSE <<EmitTask(<<MARK>>)>> \o SaveTasks(items) \o <<EmitTask(<<APPENDS>>)>>

\* A pickler that writes an int key as the str of its digit, as JSON would.
BatchDictStrKeys(items) ==
    LET strkey(v) == IF v.t = "int" THEN StrV(<<48 + v.n>>) ELSE v
        its == [i \in 1..Len(items) |-> IF i % 2 = 1 THEN strkey(items[i]) ELSE items[i]]
    IN IF Len(its) = 0 THEN <<>>
       ELSE IF Len(its) = 2 THEN SaveTasks(its) \o <<EmitTask(<<SETITEM>>)>>
       ELSE <<EmitTask(<<MARK>>)>> \o SaveTasks(its) \o <<EmitTask(<<SETITEMS>>)>>

\* batch_dict: nothing for an empty dict, SETITEM for one pair, MARK ... SETITEMS.
BatchDict(items) ==
    IF Len(items) = 0 THEN <<>>
    ELSE IF Len(items) = 2 THEN SaveTasks(items) \o <<EmitTask(<<SETITEM>>)>>
    ELSE <<EmitTask(<<MARK>>)>> \o SaveTasks(items) \o <<EmitTask(<<SETITEMS>>)>>

\* A pickler that writes a tuple of more than three items with TUPLE3.
TupleTasksNoMark(items) ==
    IF Len(items) = 0 THEN <<EmitTask(<<EMPTY_TUPLE>>)>>
    ELSE IF Len(items) <= 3
    THEN SaveTasks(items) \o <<EmitMemoTask(<<TUPLE1 + (Len(items) - 1)>>)>>
    ELSE SaveTasks(items) \o <<EmitMemoTask(<<TUPLE3>>)>>

\* save_tuple: EMPTY_TUPLE, or the items and TUPLE1..3, or MARK items TUPLE.
TupleTasks(items) ==
    IF Len(items) = 0 THEN <<EmitTask(<<EMPTY_TUPLE>>)>>
    ELSE IF Len(items) <= 3
    THEN SaveTasks(items) \o <<EmitMemoTask(<<TUPLE1 + (Len(items) - 1)>>)>>
    ELSE <<EmitTask(<<MARK>>)>> \o SaveTasks(items) \o <<EmitMemoTask(<<TUPLE>>)>>

\* save_unicode: BINGET of a memoized str, else SHORT_BINUNICODE and MEMOIZE.
SaveStr(p, v, rest) ==
    IF MemoIndex(p.memo, v) # 0
    THEN [p EXCEPT !.todo = rest, !.out = @ \o <<BINGET, MemoIndex(p.memo, v) - 1>>]
    ELSE [p EXCEPT !.todo = rest,
                   !.out = @ \o <<SHORT_BINUNICODE, Len(v.s)>> \o v.s \o <<MEMOIZE>>,
                   !.memo = Append(@, v)]

\* A pickler that writes None for an object it has no reducer for.
SaveHandleAsNone(p, v, rest) ==
    CASE v.t = "none" -> [p EXCEPT !.todo = rest, !.out = @ \o <<NONE>>]
      [] v.t = "bool" -> [p EXCEPT !.todo = rest,
                                   !.out = @ \o <<IF v.n = 1 THEN NEWTRUE ELSE NEWFALSE>>]
      [] v.t = "int" -> [p EXCEPT !.todo = rest, !.out = @ \o <<BININT1, v.n>>]
      [] v.t = "str" -> SaveStr(p, v, rest)
      [] v.t = "list" -> [p EXCEPT !.todo = BatchList(v.items) \o rest,
                                   !.out = @ \o <<EMPTY_LIST, MEMOIZE>>,
                                   !.memo = Append(@, NoneV)]
      [] v.t = "dict" -> [p EXCEPT !.todo = BatchDict(v.items) \o rest,
                                   !.out = @ \o <<EMPTY_DICT, MEMOIZE>>,
                                   !.memo = Append(@, NoneV)]
      [] v.t = "tuple" -> [p EXCEPT !.todo = TupleTasks(v.items) \o rest]
      [] OTHER -> [p EXCEPT !.todo = rest, !.out = @ \o <<NONE>>]

\* save: one object, by its type.  A type pickle has no reducer for raises
\* TypeError ("cannot pickle '_io.TextIOWrapper' object").
Save(p, v, rest) ==
    CASE v.t = "none" -> [p EXCEPT !.todo = rest, !.out = @ \o <<NONE>>]
      [] v.t = "bool" -> [p EXCEPT !.todo = rest,
                                   !.out = @ \o <<IF v.n = 1 THEN NEWTRUE ELSE NEWFALSE>>]
      [] v.t = "int" -> [p EXCEPT !.todo = rest, !.out = @ \o <<BININT1, v.n>>]
      [] v.t = "str" -> SaveStr(p, v, rest)
      [] v.t = "list" -> [p EXCEPT !.todo = BatchList(v.items) \o rest,
                                   !.out = @ \o <<EMPTY_LIST, MEMOIZE>>,
                                   !.memo = Append(@, NoneV)]
      [] v.t = "dict" -> [p EXCEPT !.todo = BatchDict(v.items) \o rest,
                                   !.out = @ \o <<EMPTY_DICT, MEMOIZE>>,
                                   !.memo = Append(@, NoneV)]
      [] v.t = "tuple" -> [p EXCEPT !.todo = TupleTasks(v.items) \o rest]
      [] OTHER -> [p EXCEPT !.exc = "TypeError"]

\* A Pickler that has nothing more to do: it finished or it raised.
PicklerDone(p) == p.todo = <<>> \/ p.exc # ""

\* One step of the pickler: the first task of todo.
PickleStep(p) ==
    IF PicklerDone(p) THEN p
    ELSE LET task == Head(p.todo)
             rest == Tail(p.todo)
         IN CASE task.k = "emit" -> [p EXCEPT !.todo = rest, !.out = @ \o task.b]
              [] task.k = "emitmemo" -> [p EXCEPT !.todo = rest,
                                                  !.out = @ \o task.b \o <<MEMOIZE>>,
                                                  !.memo = Append(@, NoneV)]
              [] OTHER -> Save(p, task.v, rest)

\* A Pickler that is used again after a call that raised, with what that call
\* had written.
DirtyPickler(obj, old) ==
    [todo |-> <<SaveTask(obj), EmitTask(<<STOP>>)>>,
     out |-> IF old.exc # "" THEN old.out ELSE <<>>,
     memo |-> IF old.exc # "" THEN old.memo ELSE <<>>,
     exc |-> ""]

\* A new Pickler for one dumps call: empty payload, empty memo.  `old` is
\* the Pickler of the call before, of which nothing is kept.
NewPickler(obj, old) ==
    [todo |-> <<SaveTask(obj), EmitTask(<<STOP>>)>>, out |-> <<>>, memo |-> <<>>, exc |-> ""]

\* No Pickler: what a thread holds before its first call.
NoPickler == [todo |-> <<>>, out |-> <<>>, memo |-> <<>>, exc |-> ""]

\* The framer: a payload of FRAME_SIZE_MIN bytes or more gets a FRAME header.
Framed(payload) ==
    IF Len(payload) >= FRAME_SIZE_MIN THEN <<FRAME>> \o LE8(Len(payload)) \o payload
    ELSE payload

\* What dumps gives back from a finished Pickler: the bytes, or the error.
PicklerOutcome(p) ==
    IF p.exc # "" THEN Raise(p.exc)
    ELSE ReturnBytes(<<PROTO, DEFAULT_PROTOCOL>> \o Framed(p.out))

RECURSIVE RunPickler(_)
RunPickler(p) == IF PicklerDone(p) THEN p ELSE RunPickler(PickleStep(p))

\* pickle.dumps(obj), run alone.
dumps(obj) == PicklerOutcome(RunPickler(NewPickler(obj, NoPickler)))

(***************************************************************************)
(* The unpickler.  An Unpickler holds the bytes (data), the position of    *)
(* the next byte to read (pos), its stack of values, the stack heights     *)
(* at which MARK was read (marks), its memo, and how it ended.             *)
(***************************************************************************)
\* The bytes that are opcodes of some pickle protocol.
RealOpcodes ==
    {40, 41, 46, 48, 49, 50, 66, 67, 70, 71, 73, 74, 75, 76, 77, 78, 80, 81, 82, 83,
     84, 85, 86, 88, 93, 97, 98, 99, 100, 101, 103, 104, 105, 106, 108, 111, 112, 113,
     114, 115, 116, 117, 125} \cup (128..152)

\* The opcodes modelled here: those the pickler above writes, and BUILD.
ModelledOpcodes ==
    {PROTO, FRAME, MEMOIZE, STOP, NONE, NEWTRUE, NEWFALSE, BININT1, SHORT_BINUNICODE,
     EMPTY_LIST, EMPTY_TUPLE, EMPTY_DICT, MARK, APPEND, APPENDS, SETITEM, SETITEMS,
     TUPLE, TUPLE1, TUPLE2, TUPLE3, BINGET, BUILD}

\* An Unpickler that is used again, with the memo of the call before.
ReusedUnpickler(s, old) ==
    [data |-> s, pos |-> 1, stack |-> <<>>, marks |-> <<>>, memo |-> old.memo,
     exc |-> "", done |-> FALSE, off |-> FALSE, result |-> NoneV]

\* A new Unpickler for one loads call: empty stack, empty memo.  `old` is
\* the Unpickler of the call before, of which nothing is kept.
NewUnpickler(s, old) ==
    [data |-> s, pos |-> 1, stack |-> <<>>, marks |-> <<>>, memo |-> <<>>,
     exc |-> "", done |-> FALSE, off |-> FALSE, result |-> NoneV]

\* No Unpickler: what a thread holds before its first call.
NoUnpickler ==
    [data |-> <<>>, pos |-> 1, stack |-> <<>>, marks |-> <<>>, memo |-> <<>>,
     exc |-> "", done |-> FALSE, off |-> FALSE, result |-> NoneV]

\* An Unpickler that has nothing more to do: STOP was read, or it raised.
UnpicklerDone(u) == u.done \/ u.exc # "" \/ u.off

Fail(u, exc) == [u EXCEPT !.exc = exc]

\* The stack height below which the current opcode may not reach.
Fence(u) == IF u.marks = <<>> THEN 0 ELSE u.marks[Len(u.marks)]

\* n more bytes can be read.
Avail(u, n) == u.pos + n - 1 <= Len(u.data)

Bytes(u, from, n) == SubSeq(u.data, from, from + n - 1)

Push(u, v, next) == [u EXCEPT !.stack = Append(@, v), !.pos = next]

PrefixTo(seq, n) == SubSeq(seq, 1, n)

\* Python's hash(): lists and dicts have none, a tuple has one if its items do.
RECURSIVE Hashable(_)
Hashable(v) ==
    CASE v.t \in {"list", "dict"} -> FALSE
      [] v.t = "tuple" -> \A i \in 1..Len(v.items) : Hashable(v.items[i])
      [] OTHER -> TRUE

\* Python's == on hashable values: True == 1 and False == 0, also in tuples.
RECURSIVE AsKey(_)
AsKey(v) ==
    CASE v.t = "bool" -> IntV(v.n)
      [] v.t = "tuple" -> TupleV([i \in 1..Len(v.items) |-> AsKey(v.items[i])])
      [] OTHER -> v

\* d[k] = x on the items of a dict: an equal key keeps its place and itself.
DictSet(items, k, x) ==
    IF \E i \in 1..Len(items) : i % 2 = 1 /\ AsKey(items[i]) = AsKey(k)
    THEN LET i == CHOOSE i \in 1..Len(items) : i % 2 = 1 /\ AsKey(items[i]) = AsKey(k)
         IN [items EXCEPT ![i + 1] = x]
    ELSE items \o <<k, x>>

\* PyObject_SetItem(target, k, x): the target afterwards, or the error.
SetItemError(target, k) ==
    CASE target.t = "dict" -> IF Hashable(k) THEN "" ELSE "TypeError"
      [] target.t = "list" ->
            IF k.t \notin {"int", "bool"} THEN "TypeError"
            ELSE IF k.n >= Len(target.items) THEN "IndexError" ELSE ""
      [] OTHER -> "TypeError"

SetItem(target, k, x) ==
    IF target.t = "dict" THEN [target EXCEPT !.items = DictSet(@, k, x)]
    ELSE [target EXCEPT !.items[k.n + 1] = x]

\* The pairs of kvs set into target one after the other, up to the first error.
RECURSIVE SetItemsInto(_, _)
SetItemsInto(target, kvs) ==
    IF kvs = <<>> THEN [target |-> target, exc |-> ""]
    ELSE IF SetItemError(target, kvs[1]) # ""
    THEN [target |-> target, exc |-> SetItemError(target, kvs[1])]
    ELSE SetItemsInto(SetItem(target, kvs[1], kvs[2]), SubSeq(kvs, 3, Len(kvs)))

\* do_append(x): the stack above height x is appended to the list below it.
DoAppend(u, x, next) ==
    LET len == Len(u.stack)
    IN IF x > len \/ x <= Fence(u) THEN Fail(u, "UnpicklingError")
       ELSE IF len = x THEN [u EXCEPT !.pos = next]
       ELSE IF u.stack[x].t # "list" THEN Fail(u, "AttributeError")
       ELSE [u EXCEPT !.pos = next,
                      !.stack = Append(PrefixTo(u.stack, x - 1),
                                       [u.stack[x] EXCEPT
                                           !.items = @ \o SubSeq(u.stack, x + 1, len)])]

\* do_setitems(x): the stack above height x, as pairs, is set into the object below.
DoSetItems(u, x, next) ==
    LET len == Len(u.stack)
    IN IF x > len \/ x <= Fence(u) THEN Fail(u, "UnpicklingError")
       ELSE IF len = x THEN [u EXCEPT !.pos = next]
       ELSE IF (len - x) % 2 # 0 THEN Fail(u, "UnpicklingError")
       ELSE LET r == SetItemsInto(u.stack[x], SubSeq(u.stack, x + 1, len))
            IN IF r.exc # "" THEN Fail(u, r.exc)
               ELSE [u EXCEPT !.pos = next,
                              !.stack = Append(PrefixTo(u.stack, x - 1), r.target)]

\* marker(): the latest MARK is taken off; the fence falls back to the one before.
PopMark(u) == [u EXCEPT !.marks = PrefixTo(@, Len(@) - 1)]

\* Pdata_poptuple(start): the stack above height start becomes one tuple.
PopTuple(u, start, next) ==
    IF start < Fence(u) THEN Fail(u, "UnpicklingError")
    ELSE [u EXCEPT !.pos = next,
                   !.stack = Append(PrefixTo(u.stack, start),
                                    TupleV(SubSeq(u.stack, start + 1, Len(u.stack))))]

\* load_build on an object of a builtin type, which has neither __setstate__
\* nor __dict__: only the state None (or (None, {})) leaves it as it is.
LoadBuild(u, next) ==
    LET len == Len(u.stack)
    IN IF len - 1 <= Fence(u) THEN Fail(u, "UnpicklingError")
       ELSE LET st == u.stack[len]
                two == st.t = "tuple" /\ Len(st.items) = 2
                state == IF two THEN st.items[1] ELSE st
            IN IF state.t # "none" /\ state.t # "dict" THEN Fail(u, "UnpicklingError")
               ELSE IF state.t = "dict" THEN Fail(u, "AttributeError")
               ELSE IF ~two THEN [u EXCEPT !.pos = next, !.stack = PrefixTo(@, len - 1)]
               ELSE IF st.items[2].t # "dict" THEN Fail(u, "UnpicklingError")
               ELSE IF st.items[2].items = <<>>
               THEN [u EXCEPT !.pos = next, !.stack = PrefixTo(@, len - 1)]
               ELSE IF st.items[2].items[1].t # "str" THEN Fail(u, "TypeError")
               ELSE Fail(u, "AttributeError")

\* load_frame: the 8-byte little-endian length must be a ssize_t and that many
\* bytes must follow.  No stream here has 65536 bytes, so a length whose
\* third to eighth byte is not 0 is more than follows.
LoadFrame(u) ==
    IF ~Avail([u EXCEPT !.pos = @ + 1], 8) THEN Fail(u, "UnpicklingError")
    ELSE LET bs == Bytes(u, u.pos + 1, 8)
         IN IF bs[8] >= 128 THEN Fail(u, "OverflowError")
            ELSE IF (\E i \in 3..8 : bs[i] # 0)
                    \/ ~Avail([u EXCEPT !.pos = @ + 9], bs[1] + 256 * bs[2])
            THEN Fail(u, "UnpicklingError")
            ELSE [u EXCEPT !.pos = @ + 9]

\* load_short_binunicode: a length byte and that many bytes of UTF-8.  Of the
\* bytes below 192 the ones from 128 on are continuation bytes, invalid alone.
LoadShortBinUnicode(u) ==
    IF ~Avail([u EXCEPT !.pos = @ + 1], 1) THEN Fail(u, "UnpicklingError")
    ELSE LET n == u.data[u.pos + 1]
         IN IF ~Avail([u EXCEPT !.pos = @ + 2], n) THEN Fail(u, "UnpicklingError")
            ELSE IF \E i \in 1..n : u.data[u.pos + 1 + i] >= 128
            THEN Fail(u, "UnicodeDecodeError")
            ELSE Push(u, StrV(Bytes(u, u.pos + 2, n)), u.pos + 2 + n)

\* load_binget: the memo entry of a one-byte index.
LoadBinGet(u) ==
    IF ~Avail([u EXCEPT !.pos = @ + 1], 1) THEN Fail(u, "UnpicklingError")
    ELSE LET idx == u.data[u.pos + 1]
         IN IF idx >= Len(u.memo) THEN Fail(u, "UnpicklingError")
            ELSE IF u.memo[idx + 1].t \in {"list", "dict"} THEN [u EXCEPT !.off = TRUE]
            ELSE Push(u, u.memo[idx + 1], u.pos + 2)

\* An unpickler that takes the end of the bytes for a STOP.
RanOutLenient(u) ==
    IF Len(u.stack) > Fence(u) THEN [u EXCEPT !.done = TRUE, !.result = u.stack[Len(u.stack)]]
    ELSE Fail(u, "EOFError")

\* No byte is left where an opcode is due: EOFError ("Ran out of input").
RanOut(u) == Fail(u, "EOFError")

\* One step of the unpickler: one opcode with its argument.
LoadStep(u) ==
    IF UnpicklerDone(u) THEN u
    ELSE IF ~Avail(u, 1) THEN RanOut(u)
    ELSE LET op == u.data[u.pos]
             len == Len(u.stack)
             next == u.pos + 1
         IN CASE op = PROTO ->
                   IF ~Avail([u EXCEPT !.pos = next], 1) THEN Fail(u, "UnpicklingError")
                   ELSE IF u.data[next] > HIGHEST_PROTOCOL THEN Fail(u, "ValueError")
                   ELSE [u EXCEPT !.pos = next + 1]
              [] op = FRAME -> LoadFrame(u)
              [] op = NONE -> Push(u, NoneV, next)
              [] op = NEWTRUE -> Push(u, TrueV, next)
              [] op = NEWFALSE -> Push(u, FalseV, next)
              [] op = BININT1 ->
                   IF ~Avail([u EXCEPT !.pos = next], 1) THEN Fail(u, "UnpicklingError")
                   ELSE Push(u, IntV(u.data[next]), next + 1)
              [] op = SHORT_BINUNICODE -> LoadShortBinUnicode(u)
              [] op = EMPTY_LIST -> Push(u, ListV(<<>>), next)
              [] op = EMPTY_TUPLE -> Push(u, TupleV(<<>>), next)
              [] op = EMPTY_DICT -> Push(u, DictV(<<>>), next)
              [] op = MEMOIZE ->
                   IF len <= Fence(u) THEN Fail(u, "UnpicklingError")
                   ELSE [u EXCEPT !.pos = next, !.memo = Append(@, u.stack[len])]
              [] op = BINGET -> LoadBinGet(u)
              [] op = MARK -> [u EXCEPT !.pos = next, !.marks = Append(@, len)]
              [] op = APPEND ->
                   IF len - 1 <= Fence(u) THEN Fail(u, "UnpicklingError")
                   ELSE DoAppend(u, len - 1, next)
              [] op = APPENDS ->
                   IF u.marks = <<>> THEN Fail(u, "UnpicklingError")
                   ELSE DoAppend(PopMark(u), Fence(u), next)
              [] op = SETITEM -> DoSetItems(u, len - 2, next)
              [] op = SETITEMS ->
                   IF u.marks = <<>> THEN Fail(u, "UnpicklingError")
                   ELSE DoSetItems(PopMark(u), Fence(u), next)
              [] op = TUPLE ->
                   IF u.marks = <<>> THEN Fail(u, "UnpicklingError")
                   ELSE PopTuple(PopMark(u), Fence(u), next)
              [] op \in {TUPLE1, TUPLE2, TUPLE3} ->
                   IF len < op - TUPLE1 + 1 THEN Fail(u, "UnpicklingError")
                   ELSE PopTuple(u, len - (op - TUPLE1 + 1), next)
              [] op = BUILD -> LoadBuild(u, next)
              [] op = STOP ->
                   IF len <= Fence(u) THEN Fail(u, "UnpicklingError")
                   ELSE [u EXCEPT !.done = TRUE, !.result = u.stack[len]]
              [] op \in RealOpcodes -> [u EXCEPT !.off = TRUE]
              [] OTHER -> Fail(u, "UnpicklingError")

\* What loads gives back from a finished Unpickler: the value, or the error.
UnpicklerOutcome(u) ==
    IF u.off THEN Unmodelled
    ELSE IF u.exc # "" THEN Raise(u.exc)
    ELSE ReturnVal(u.result)

RECURSIVE RunUnpickler(_)
RunUnpickler(u) == IF UnpicklerDone(u) THEN u ELSE RunUnpickler(LoadStep(u))

\* pickle.loads(s), run alone.
loads(s) == UnpicklerOutcome(RunUnpickler(NewUnpickler(s, NoUnpickler)))

(***************************************************************************)
(* PickleSerde.  ser is `return pickle.dumps(obj)` and de is `return       *)
(* pickle.loads(s)`: what the library returns is returned, and what it     *)
(* raises leaves the method as it is, there being no try around the call.  *)
(* The class defines no __init__ and no attribute, and neither method      *)
(* touches self.                                                           *)
(***************************************************************************)
\* A ser that raises SerializationError in place of the error of dumps.
ser_wrap(r) == IF r.kind = "raise" THEN Raise("SerializationError") ELSE r

\* A de that returns None when loads raises.
de_swallow(r) == IF r.kind = "raise" THEN ReturnVal(NoneV) ELSE r

ser_return(r) == r

de_return(r) == r

\* PickleSerde.ser(obj), run alone.
ser(obj) == ser_return(dumps(obj))

\* PickleSerde.de(s), run alone.
de(s) == de_return(loads(s))

\* A PickleSerde that notes on itself which methods were called.
InstanceCaching(inst, op) == inst \cup {op}

\* The attributes of the PickleSerde instance after a call: those before it.
InstanceAfter(inst, op) == inst

\* One Pickler and one Unpickler for all threads.
SlotShared(t) == 1

\* Each dumps or loads call builds a Pickler or Unpickler of its own, here
\* the one in the place of the calling thread.
Slot(t) == t

(***************************************************************************)
(* The callers.  Each thread of AllProcs is a worker calling ser and de    *)
(* on the one PickleSerde.  What ser returned to a thread it holds (buf),  *)
(* may send to another worker, and hands to de; on the way the bytes may   *)
(* be cut short or have a byte changed.                                    *)
(***************************************************************************)
AllProcs == {1, 2}

VARIABLES
    vals,   \* vals[t]: the values thread t has to serialize
    pc,     \* pc[t]: "idle", or the method thread t is in: "ser" or "de"
    cur,    \* cur[t]: the call thread t is in, with its argument
    pk,     \* pk[i]: the Pickler built last in place i
    up,     \* up[i]: the Unpickler built last in place i
    buf,    \* buf[t]: the bytes thread t holds, and the value they were made from
    last,   \* last[t]: the call thread t completed last, with its outcome
    self,   \* the attributes of the PickleSerde instance
    errs    \* some call has ended in an error

vars == <<vals, pc, cur, pk, up, buf, last, self, errs>>

\* A call: its method, its argument (v for ser, b for de), where the bytes of
\* a de call come from (orig the value, src whether they are as ser made
\* them), whether an earlier call had failed when it began (afterErr), and
\* whether another thread's call took a step while it ran (ovl).
Call(op, v, b, orig, src, afterErr) ==
    [op |-> op, v |-> v, b |-> b, orig |-> orig, src |-> src,
     afterErr |-> afterErr, ovl |-> FALSE, out |-> NoOutcome]

NoCall == Call("none", NoneV, <<>>, NoneV, "none", FALSE)

Buf(b, orig, src) == [b |-> b, orig |-> orig, src |-> src]

NoBuf == Buf(<<>>, NoneV, "none")

\* Before any call, the threads having the values of work.
Start(work) ==
    /\ vals = work
    /\ pc = [t \in AllProcs |-> "idle"]
    /\ cur = [t \in AllProcs |-> NoCall]
    /\ pk = [t \in AllProcs |-> NoPickler]
    /\ up = [t \in AllProcs |-> NoUnpickler]
    /\ buf = [t \in AllProcs |-> NoBuf]
    /\ last = [t \in AllProcs |-> NoCall]
    /\ self = {}
    /\ errs = FALSE

\* The calls of the other threads that are under way see a step of thread t.
Overlapped(t) ==
    [o \in AllProcs |-> IF o # t /\ pc[o] # "idle" THEN [cur[o] EXCEPT !.ovl = TRUE]
                                                    ELSE cur[o]]

\* Thread t calls ser(v): dumps builds a Pickler.  A thread is in one call
\* at a time, so the Unpickler of its last de call is gone by now.
SerCall(t, v) ==
    /\ pc[t] = "idle"
    /\ v \in vals[t]
    /\ pc' = [pc EXCEPT ![t] = "ser"]
    /\ cur' = [cur EXCEPT ![t] = Call("ser", v, <<>>, NoneV, "none", errs)]
    /\ pk' = [pk EXCEPT ![Slot(t)] = NewPickler(v, pk[Slot(t)])]
    /\ up' = [up EXCEPT ![t] = NoUnpickler]
    /\ buf' = [buf EXCEPT ![t] = NoBuf]
    /\ last' = [last EXCEPT ![t] = NoCall]
    /\ UNCHANGED <<vals, self, errs>>

\* dumps, one step.
SerStep(t) ==
    /\ pc[t] = "ser"
    /\ ~PicklerDone(pk[Slot(t)])
    /\ pk' = [pk EXCEPT ![Slot(t)] = PickleStep(pk[Slot(t)])]
    /\ cur' = Overlapped(t)
    /\ UNCHANGED <<vals, pc, up, buf, last, self, errs>>

\* dumps is done and ser returns its bytes, or its error leaves ser.
SerReturn(t) ==
    /\ pc[t] = "ser"
    /\ PicklerDone(pk[Slot(t)])
    /\ LET out == ser_return(PicklerOutcome(pk[Slot(t)]))
       IN /\ last' = [last EXCEPT ![t] = [cur[t] EXCEPT !.out = out]]
          /\ buf' = [buf EXCEPT ![t] = IF out.kind = "return"
                                       THEN Buf(out.data, cur[t].v, "intact")
                                       ELSE NoBuf]
          /\ errs' = (errs \/ out.kind = "raise")
    /\ pc' = [pc EXCEPT ![t] = "idle"]
    /\ cur' = [cur EXCEPT ![t] = NoCall]
    /\ self' = InstanceAfter(self, "ser")
    /\ UNCHANGED <<vals, pk, up>>

\* Thread t calls de on the bytes it holds: loads builds an Unpickler.  The
\* Pickler of its last ser call is gone by now.
DeCall(t) ==
    /\ pc[t] = "idle"
    /\ buf[t].src # "none"
    /\ pc' = [pc EXCEPT ![t] = "de"]
    /\ cur' = [cur EXCEPT ![t] = Call("de", NoneV, buf[t].b, buf[t].orig, buf[t].src, errs)]
    /\ up' = [up EXCEPT ![Slot(t)] = NewUnpickler(buf[t].b, up[Slot(t)])]
    /\ pk' = [pk EXCEPT ![t] = NoPickler]
    /\ last' = [last EXCEPT ![t] = NoCall]
    /\ UNCHANGED <<vals, buf, self, errs>>

\* loads, one opcode.
DeStep(t) ==
    /\ pc[t] = "de"
    /\ ~UnpicklerDone(up[Slot(t)])
    /\ up' = [up EXCEPT ![Slot(t)] = LoadStep(up[Slot(t)])]
    /\ cur' = Overlapped(t)
    /\ UNCHANGED <<vals, pc, pk, buf, last, self, errs>>

\* loads is done and de returns its value, or its error leaves de.
DeReturn(t) ==
    /\ pc[t] = "de"
    /\ UnpicklerDone(up[Slot(t)])
    /\ LET out == de_return(UnpicklerOutcome(up[Slot(t)]))
       IN /\ last' = [last EXCEPT ![t] = [cur[t] EXCEPT !.out = out]]
          /\ errs' = (errs \/ out.kind = "raise")
    /\ pc' = [pc EXCEPT ![t] = "idle"]
    /\ cur' = [cur EXCEPT ![t] = NoCall]
    /\ self' = InstanceAfter(self, "de")
    /\ UNCHANGED <<vals, pk, up, buf>>

\* Worker exchange: thread o gets the bytes thread t holds.
Send(t, o) ==
    /\ o # t
    /\ pc[t] = "idle"
    /\ pc[o] = "idle"
    /\ buf[t].src # "none"
    /\ buf[o] # buf[t]
    /\ buf' = [buf EXCEPT ![o] = buf[t]]
    /\ UNCHANGED <<vals, pc, cur, pk, up, last, self, errs>>

\* The bytes a thread holds come back cut short: a proper prefix of them
\* (with onlyLast, all but the last byte).
Truncate(t, onlyLast) ==
    /\ pc[t] = "idle"
    /\ buf[t].src = "intact"
    /\ \E n \in 0..(Len(buf[t].b) - 1) :
          /\ onlyLast => n = Len(buf[t].b) - 1
          /\ buf' = [buf EXCEPT ![t] = Buf(PrefixTo(buf[t].b, n), buf[t].orig, "truncated")]
    /\ UNCHANGED <<vals, pc, cur, pk, up, last, self, errs>>

\* The bytes a thread holds come back with one byte changed into another, of
\* noise, and are still a stream within what is modelled.
Corrupt(t, noise) ==
    /\ pc[t] = "idle"
    /\ buf[t].src = "intact"
    /\ \E i \in 1..Len(buf[t].b) : \E x \in noise \ {buf[t].b[i]} :
          LET b == [buf[t].b EXCEPT ![i] = x]
          IN /\ loads(b).kind # "unmodelled"
             /\ buf' = [buf EXCEPT ![t] = Buf(b, buf[t].orig, "corrupted")]
    /\ UNCHANGED <<vals, pc, cur, pk, up, last, self, errs>>

\* The calls of the threads of P.
Calls(P) ==
    \E t \in P :
        \/ \E v \in vals[t] : SerCall(t, v)
        \/ SerStep(t)
        \/ SerReturn(t)
        \/ DeCall(t)
        \/ DeStep(t)
        \/ DeReturn(t)

(***************************************************************************)
(* The values the callers serialize.                                       *)
(***************************************************************************)
\* The ints are 1..MaxInt; flat containers have up to MaxItems items.
MaxInt == 2

MaxItems == 2

Ints == {IntV(n) : n \in 1..MaxInt}

\* The one-character strings "a" and "b".
Strs == {StrV(<<97>>), StrV(<<98>>)}

Atoms == {NoneV, TrueV, FalseV} \cup Ints \cup Strs

Keys == Ints \cup Strs

SeqsUpTo(S, n) == UNION {[1..k -> S] : k \in 0..n}

Injective(f) == \A i, j \in DOMAIN f : i # j => f[i] # f[j]

\* k1, v1, k2, v2, ... of the keys ks and the values xs.
Interleave(ks, xs) == [i \in 1..(2 * Len(ks)) |-> IF i % 2 = 1 THEN ks[(i + 1) \div 2]
                                                               ELSE xs[i \div 2]]

Lists == {ListV(items) : items \in SeqsUpTo(Atoms, MaxItems)}

Tuples == {TupleV(items) : items \in SeqsUpTo(Atoms, MaxItems)}

\* A tuple of three and one of four items: TUPLE3, and MARK ... TUPLE.
LongTuples ==
    {TupleV(<<IntV(1), StrV(<<97>>), NoneV>>),
     TupleV(<<IntV(1), StrV(<<97>>), StrV(<<97>>), IntV(MaxInt)>>)}

Dicts ==
    {DictV(Interleave(ks, xs)) :
        <<ks, xs>> \in {p \in SeqsUpTo(Keys, MaxItems) \X SeqsUpTo(Strs \cup {IntV(1)}, MaxItems) :
                           Len(p[1]) = Len(p[2]) /\ Injective(p[1])}}

\* Containers of at most one item, and containers holding them.
Inner == {c \in Lists \cup Tuples \cup Dicts : Len(c.items) <= 2 /\ (c.t # "dict" => Len(c.items) <= 1)}

Nested ==
    UNION {{ListV(<<c>>), TupleV(<<c, NoneV>>), DictV(<<IntV(1), c>>), ListV(<<StrV(<<97>>), ListV(<<c>>)>>)} :
              c \in Inner}

\* Values with an open file in them.
WithHandle ==
    {HandleV, ListV(<<IntV(1), HandleV>>), TupleV(<<HandleV>>),
     DictV(<<IntV(1), StrV(<<97>>), IntV(MaxInt), HandleV>>)}

RECURSIVE HasHandle(_)
HasHandle(v) == v.t = "handle" \/ \E i \in 1..Len(v.items) : HasHandle(v.items[i])

Values == Atoms \cup Lists \cup Tuples \cup LongTuples \cup Dicts \cup Nested \cup WithHandle

\* One thread with one value of Values to serialize, time and again; the bytes
\* stay as ser made them.
Init == \E v \in Values : Start([t \in AllProcs |-> IF t = 1 THEN {v} ELSE {}])

Next == Calls({1})

Spec == Init /\ [][Next]_vars

(***************************************************************************)
(* Bytes that come back damaged.                                           *)
(***************************************************************************)
\* {1: "a", 2: "b"}
Example == DictV(<<IntV(1), StrV(<<97>>), IntV(2), StrV(<<98>>)>>)

\* ["a", "a"] and ["b", "a", "a"]: the second "a" is written as a BINGET.
TwoAs == ListV(<<StrV(<<97>>), StrV(<<97>>)>>)

BThenTwoAs == ListV(<<StrV(<<98>>), StrV(<<97>>), StrV(<<97>>)>>)

\* [1, <open file>]
ListWithHandle == ListV(<<IntV(1), HandleV>>)

ValsMalformed ==
    {IntV(1), StrV(<<97>>), TupleV(<<IntV(1), IntV(2)>>), ListV(<<IntV(1)>>), TwoAs, Example,
     ListWithHandle}

\* The bytes a changed byte may become: no opcode, and opcodes of each kind.
Noise == {0, 1, STOP, MARK, NONE, BININT1, BINGET, MEMOIZE, APPEND, APPENDS, SETITEM, EMPTY_LIST}

\* One thread with one value of ValsMalformed; the bytes may be cut short
\* anywhere or have any one byte changed.
InitMalformed == \E v \in ValsMalformed : Start([t \in AllProcs |-> IF t = 1 THEN {v} ELSE {}])

NextMalformed ==
    \/ Calls({1})
    \/ Truncate(1, FALSE)
    \/ Corrupt(1, Noise)

SpecMalformed == InitMalformed /\ [][NextMalformed]_vars

(***************************************************************************)
(* Two workers calling the one PickleSerde at the same time.               *)
(***************************************************************************)
ValsParallel == {TwoAs, BThenTwoAs, ListWithHandle}

InitParallel == Start([t \in AllProcs |-> ValsParallel])

NextParallel ==
    \/ Calls(AllProcs)
    \/ \E t \in AllProcs : \E o \in AllProcs : Send(t, o)
    \/ \E t \in AllProcs : Truncate(t, TRUE)

SpecParallel == InitParallel /\ [][NextParallel]_vars

(***************************************************************************)
(* The claims.                                                             *)
(***************************************************************************)
\* The outcome of a completed call when it is run alone.
Alone(c) == IF c.op = "ser" THEN ser(c.v) ELSE de(c.b)

\* C1: round trip.  Whenever de returns from bytes that are as ser made them
\* from a value v, it returns v: same type, same structure, same items, for
\* every value of Values that ser accepts, nested containers among them.
C1_RoundTrip ==
    \A t \in AllProcs :
        (last[t].op = "de" /\ last[t].src = "intact")
            => last[t].out = ReturnVal(last[t].orig)

\* de gave back a container nested in a container.
C1_Witness ==
    /\ last[1].op = "de"
    /\ last[1].src = "intact"
    /\ last[1].orig \in Nested
    /\ last[1].out.kind = "return"
    /\ last[1].out.val.items[1].t \in {"list", "tuple", "dict"}

LoadErrors ==
    {"EOFError", "UnpicklingError", "ValueError", "OverflowError", "UnicodeDecodeError",
     "AttributeError", "TypeError", "IndexError"}

C5_KeyFidelity ==
    \A t \in AllProcs :
        (last[t].op = "de" /\ last[t].src = "intact" /\ last[t].orig.t = "dict")
            => /\ last[t].out.kind = "return"
               /\ last[t].out.val.t = "dict"
               /\ Len(last[t].out.val.items) = Len(last[t].orig.items)
               /\ \A i \in 1..Len(last[t].orig.items) :
                     i % 2 = 1 => /\ last[t].out.val.items[i].t = last[t].orig.items[i].t
                                  /\ last[t].out.val.items[i].n = last[t].orig.items[i].n
                                  /\ last[t].out.val.items[i].s = last[t].orig.items[i].s
               /\ (last[t].orig = Example => last[t].out.val = Example)

\* de gave back {1: "a", 2: "b"} with the int keys 1 and 2.
C5_Witness ==
    /\ last[1].op = "de"
    /\ last[1].orig = Example
    /\ last[1].out.kind = "return"
    /\ last[1].out.val.items[1] = IntV(1)
    /\ last[1].out.val.items[3] = IntV(2)

\* C6: determinism of decode.  Two de calls on the same bytes have the same
\* outcome, whatever calls went before and between them.
C6_Deterministic ==
    \A t, o \in AllProcs :
        (last[t].op = "de" /\ last[o].op = "de" /\ last[t].b = last[o].b)
            => last[t].out = last[o].out

\* Both threads completed de on the same bytes, one of them after a call had
\* failed and the other before.
C6_Witness ==
    /\ last[1].op = "de"
    /\ last[2].op = "de"
    /\ last[1].b = last[2].b
    /\ last[1].afterErr
    /\ ~last[2].afterErr

\* C7: parallel safety.  Every call, however the steps of the threads are
\* interleaved, has the outcome it has when run alone.
C7_RunAlone ==
    \A t \in AllProcs : last[t].op # "none" => last[t].out = Alone(last[t])

\* A de call completed during which the other thread's ser took steps, and that
\* ser is still under way.
C7_Witness ==
    /\ last[1].op = "de"
    /\ last[1].ovl
    /\ pc[2] = "ser"
    /\ cur[2].ovl

\* C8: errors are terminal for the failing call only.  A call that begins
\* after a ser or de call has ended in an error has the outcome it has when
\* run alone, and a Pickler or Unpickler that raised takes no further step:
\* the call can only end.
C8_ErrorsTerminal ==
    /\ \A t \in AllProcs :
          (last[t].op # "none" /\ last[t].afterErr) => last[t].out = Alone(last[t])
    /\ \A t \in AllProcs :
          /\ (pc[t] = "ser" /\ pk[Slot(t)].exc # "") => (~ENABLED SerStep(t) /\ ENABLED SerReturn(t))
          /\ (pc[t] = "de" /\ up[Slot(t)].exc # "") => (~ENABLED DeStep(t) /\ ENABLED DeReturn(t))

\* Thread 1's ser raised, and its next call, a ser, returned bytes.
C8_Witness ==
    /\ last[1].op = "ser"
    /\ last[1].afterErr
    /\ last[1].out.kind = "return"
    /\ last[2].op = "none"
    /\ pc[2] = "idle"

\* C9: ser has no side effects.  A step of ser, and its return or its error,
\* leave the value it is given, the values the threads have and the
\* attributes of the PickleSerde as they are, and touch nothing of another
\* thread but the note that a step was taken.
C9_NoSideEffects ==
    [][\A t \in AllProcs :
          (SerStep(t) \/ SerReturn(t))
              => /\ self' = self
                 /\ vals' = vals
                 /\ up' = up
                 /\ (pc'[t] = "ser" => cur'[t].v = cur[t].v)
                 /\ (pc'[t] = "idle" => last'[t].v = cur[t].v /\ last'[t].v \in vals'[t])
                 /\ \A o \in AllProcs \ {t} :
                       /\ pc'[o] = pc[o]
                       /\ buf'[o] = buf[o]
                       /\ last'[o] = last[o]]_vars

\* A ser call has failed, the other thread having taken steps meanwhile and
\* holding bytes, and the PickleSerde has no attribute.
C9_Witness ==
    /\ last[1].op = "ser"
    /\ last[1].out.kind = "raise"
    /\ last[1].ovl
    /\ buf[2].src = "intact"
    /\ self = {}

\* C10: pure pass-through.  What ser gives is what dumps gives for the value
\* and what de gives is what loads gives for the bytes, error or not; the
\* bytes of dumps are decoded by de and the bytes of ser by loads.
C10_PassThrough ==
    \A t \in AllProcs :
        /\ last[t].op = "ser"
              => /\ last[t].out = dumps(last[t].v)
                 /\ last[t].out.kind = "return"
                       => /\ de(dumps(last[t].v).data) = ReturnVal(last[t].v)
                          /\ loads(last[t].out.data) = ReturnVal(last[t].v)
        /\ last[t].op = "de" => last[t].out = loads(last[t].b)

\* de returned, from bytes with a byte changed, the value loads returns: not
\* the original.
C10_Witness ==
    /\ last[1].op = "de"
    /\ last[1].src = "corrupted"
    /\ last[1].out.kind = "return"
    /\ last[1].out.val # last[1].orig
====
